---- MODULE Spec2Model ----
(***************************************************************************)
(* The dialogue state machine of the conversational assistant:             *)
(* ConversationManager (components/conversation_manager.py) driven by the  *)
(* classifier boundary LLMClient (components/llm_client.py) and persisting *)
(* through save_action_to_outbox (utils/helpers.py).                       *)
(*                                                                         *)
(* One step of the model is one call of ConversationManager.process_message*)
(* (or of reset_conversation).  The classifier's raw output, the user's    *)
(* text and the outcome of the file write are the inputs of a turn.        *)
(***************************************************************************)
EXTENDS Naturals, Sequences, FiniteSets, TLC

VARIABLES
    state,      \* ConversationManager.state, the session dict
    outbox,     \* the actions written to the outbox directory, in order
    turns,      \* number of process_message calls made so far
    last,       \* what the most recent process_message call did and returned
    confirmed,  \* history variable: a confirmation turn took the positive
                \* branch since the current intent was opened
    snap,       \* what the caller's most recent get_current_state() returned
    conversation_managers,  \* main.py's registry: session id -> manager
    session_id, \* the session id of the most recent request to main.py
    inflight,   \* per thread: the process_message call it is in, if any
    probe       \* the most recent direct call of a helper and what it returned

vars == <<state, outbox, turns, last, confirmed, snap, conversation_managers,
          session_id, inflight, probe>>

\* what only the callers of the state machine and the registry change
outside == <<snap, conversation_managers, session_id, inflight, probe>>

-----------------------------------------------------------------------------
(* Bounds of the exploration *)

MaxTurns == 2

\* process_message calls of a long conversation (more than max_history)
MaxLongTurns == 12

\* process_message calls of a conversation that switches to an email
MaxSwitchTurns == 3

\* process_message calls followed statement by statement
MaxStepTurns == 2

\* direct calls of save_action_to_outbox
MaxSaves == 3

\* seconds the clock advances while they are made
MaxSeconds == 2

\* entries of a recipient list
MaxRecipients == 2

-----------------------------------------------------------------------------
(* Values *)

\* Python None / JSON null for a scalar
NULL == "NULL"
\* a key that is not in a dict
ABSENT == "ABSENT"

EntityKeys == {"title", "date", "time", "participants", "recipient", "subject", "body"}

\* an entities dict: key -> value, ABSENT where the dict has no such key
Ent(pairs) == [k \in EntityKeys |-> IF k \in DOMAIN pairs THEN pairs[k] ELSE ABSENT]

NoEntities == [k \in EntityKeys |-> ABSENT]

\* "entities": null in the classifier's JSON (dict.get then returns None)
NullEntities == [k \in EntityKeys |-> NULL]

IsDict(e) == e # NullEntities

\* Python truthiness of entities.get(field)
Truthy(v) == v \notin {ABSENT, "", NULL}

\* str(v).strip() is non-empty
Stripped(v) == v \notin {"", " "}

\* entities.get(field) and str(entities.get(field)).strip()
Present(e, field) == Truthy(e[field]) /\ Stripped(e[field])

\* the strings the address pattern of utils/helpers.py matches
EmailShapedValues == {"a@x.com", "s@x.com"}

validate_email_addresses(recipients) ==
    IF ~Truthy(recipients) THEN FALSE ELSE recipients \in EmailShapedValues

-----------------------------------------------------------------------------
(* Entity payloads a classifier output carries in this exploration *)

MeetingNoParticipants == Ent([title |-> "standup", date |-> "2026-01-05", time |-> "3pm"])
MeetingFull == Ent([title |-> "standup", date |-> "2026-01-05", time |-> "3pm",
                    participants |-> "s@x.com"])
MeetingPartial == Ent([title |-> "standup", date |-> "2026-01-05"])
TimeOnly == Ent([time |-> "4pm"])
EmailFull == Ent([recipient |-> "a@x.com", subject |-> "hello", body |-> "text"])
EmailToName == Ent([recipient |-> "sara", subject |-> "hello", body |-> "text"])
RecipientOnly == Ent([recipient |-> "a@x.com"])

UserInputs == {"yes", "no"}

Intents == {"schedule_meeting", "send_email", "chitchat"}

-----------------------------------------------------------------------------
(* The classifier boundary: components/llm_client.py *)

\* d.get(f, default) on a response dict: `present` holds the keys the dict has
Field(r, f, default) == IF f \in r.present THEN r[f] ELSE default

\* the keys _parse_response guarantees
ParsedFields == {"action_type", "intent", "entities", "response",
                 "needs_confirmation", "ready_to_execute", "correction_detected"}

\* ParseErrorResponse with the failure reported as ordinary small talk
ParseErrorAsChitchat ==
    [present |-> ParsedFields, origin |-> "parse_error",
     action_type |-> "chitchat", intent |-> "chitchat", entities |-> NoEntities,
     response |-> "parse_apology", needs_confirmation |-> FALSE,
     ready_to_execute |-> FALSE, correction_detected |-> FALSE,
     missing_entities |-> {}]

\* The fallback dict of _parse_response for text json.loads rejects
ParseErrorResponse ==
    [present |-> ParsedFields, origin |-> "parse_error",
     action_type |-> "error", intent |-> "chitchat", entities |-> NoEntities,
     response |-> "parse_apology", needs_confirmation |-> FALSE,
     ready_to_execute |-> FALSE, correction_detected |-> FALSE,
     missing_entities |-> {}]

\* The fallback dict of LLMClient.process_message for any exception
ClientErrorResponse ==
    [present |-> ParsedFields \ {"correction_detected"}, origin |-> "client_error",
     action_type |-> "error", intent |-> "chitchat", entities |-> NoEntities,
     response |-> "client_apology", needs_confirmation |-> FALSE,
     ready_to_execute |-> FALSE, correction_detected |-> FALSE,
     missing_entities |-> {}]

\* ParseResponse assigning the default of needs_confirmation whether or not
\* the object has the key
ParseResponseResettingFlag(raw) ==
    IF raw.kind = "unparsable" THEN ParseErrorResponse
    ELSE [present |-> raw.present \cup ParsedFields, origin |-> "classifier",
          action_type |-> Field(raw, "action_type", "chitchat"),
          intent |-> Field(raw, "intent", "chitchat"),
          entities |-> Field(raw, "entities", NoEntities),
          response |-> Field(raw, "response", "default_reply"),
          needs_confirmation |-> FALSE,
          ready_to_execute |-> Field(raw, "ready_to_execute", FALSE),
          correction_detected |-> Field(raw, "correction_detected", FALSE),
          missing_entities |-> Field(raw, "missing_entities", {})]

\* _parse_response: unparsable text gives the fallback, a parsed object gets
\* the default of every required field it lacks
ParseResponse(raw) ==
    IF raw.kind = "unparsable" THEN ParseErrorResponse
    ELSE [present |-> raw.present \cup ParsedFields, origin |-> "classifier",
          action_type |-> Field(raw, "action_type", "chitchat"),
          intent |-> Field(raw, "intent", "chitchat"),
          entities |-> Field(raw, "entities", NoEntities),
          response |-> Field(raw, "response", "default_reply"),
          needs_confirmation |-> Field(raw, "needs_confirmation", FALSE),
          ready_to_execute |-> Field(raw, "ready_to_execute", FALSE),
          correction_detected |-> Field(raw, "correction_detected", FALSE),
          missing_entities |-> Field(raw, "missing_entities", {})]

\* required_fields of LLMClient.process_message
ClientRequiredFields(intent) ==
    IF intent = "schedule_meeting" THEN {"date", "time", "participants"}
    ELSE IF intent = "send_email" THEN {"recipient", "subject", "body"}
    ELSE {}

\* LLMClient.process_message: call, parse, then clear ready_to_execute when the
\* response's own entities lack a field its intent requires
LLMClientProcessMessage(raw) ==
    IF raw.kind = "api_error" THEN ClientErrorResponse
    ELSE LET parsed == ParseResponse(raw)
             intent == parsed.intent
             entities == parsed.entities
         IN  IF intent \in {"schedule_meeting", "send_email"}
             THEN IF ~IsDict(entities)
                  THEN ClientErrorResponse      \* None.get raises, caught at line 53
                  ELSE LET missing == {f \in ClientRequiredFields(intent) :
                                          ~Truthy(entities[f])}
                       IN  IF missing # {}
                           THEN [parsed EXCEPT !.ready_to_execute = FALSE,
                                               !.missing_entities = missing,
                                               !.present = @ \cup {"missing_entities"}]
                           ELSE parsed
             ELSE parsed

-----------------------------------------------------------------------------
(* Classifier outputs of the exploration *)

AllFields == ParsedFields \cup {"missing_entities"}

Unparsable ==
    [kind |-> "unparsable", present |-> {}, action_type |-> "chitchat",
     intent |-> "chitchat", entities |-> NoEntities, response |-> "llm_reply",
     needs_confirmation |-> FALSE, ready_to_execute |-> FALSE,
     correction_detected |-> FALSE, missing_entities |-> {}]

ApiError == [Unparsable EXCEPT !.kind = "api_error"]

\* a JSON object with every field
Json(at, i, e, nc, rte, cd, miss) ==
    [kind |-> "json", present |-> AllFields, action_type |-> at,
     intent |-> i, entities |-> e, response |-> "llm_reply",
     needs_confirmation |-> nc, ready_to_execute |-> rte,
     correction_detected |-> cd, missing_entities |-> miss]

\* a JSON object without intent, entities, correction_detected and
\* missing_entities, as in the prompt's example for "yes" (llm_client.py:155)
JsonShort(at, nc, rte) ==
    [Json(at, "chitchat", NoEntities, nc, rte, FALSE, {}) EXCEPT
        !.present = {"action_type", "response", "needs_confirmation", "ready_to_execute"}]

\* a JSON object with a reply only
JsonReplyOnly == [JsonShort("chitchat", FALSE, FALSE) EXCEPT !.present = {"response"}]

\* a JSON object whose "response" is null
JsonNullReply ==
    [Json("chitchat", "chitchat", NoEntities, FALSE, FALSE, FALSE, {}) EXCEPT
        !.response = NULL]

\* the payloads a classifier output of a given intent carries here
PayloadsOf(i) ==
    IF i = "schedule_meeting"
    THEN {NoEntities, MeetingPartial, TimeOnly, MeetingNoParticipants, MeetingFull}
    ELSE IF i = "send_email"
    THEN {NoEntities, RecipientOnly, EmailToName, EmailFull}
    ELSE {NoEntities, NullEntities}

RawOutputs ==
    {Unparsable, ApiError, JsonReplyOnly, JsonNullReply}
    \cup UNION {{Json("new_intent", i, e, nc, FALSE, FALSE, {}) :
                    e \in PayloadsOf(i), nc \in BOOLEAN} :
                i \in Intents}
    \cup {Json("new_intent", "send_email", e, nc, FALSE, FALSE, {"email_addresses"}) :
            e \in PayloadsOf("send_email"), nc \in BOOLEAN}
    \cup UNION {{Json("correction", i, e, nc, FALSE, TRUE, {}) :
                    e \in PayloadsOf(i), nc \in BOOLEAN} :
                i \in Intents}
    \cup {Json("correction", "schedule_meeting", TimeOnly, nc, FALSE, FALSE, {}) :
            nc \in BOOLEAN}
    \cup UNION {{Json("confirmation", i, e, FALSE, rte, FALSE, {}) :
                    e \in PayloadsOf(i) \cap {NoEntities, MeetingFull, EmailFull},
                    rte \in BOOLEAN} :
                i \in Intents}
    \cup {JsonShort("confirmation", FALSE, rte) : rte \in BOOLEAN}
    \cup {Json(at, "chitchat", NoEntities, FALSE, FALSE, FALSE, {}) :
            at \in {"cancellation", "email_address_request", "chitchat", "greeting"}}

-----------------------------------------------------------------------------
(* The session state: components/conversation_manager.py *)

\* self.max_history
max_history == 10

NoFile == [prefix |-> NULL, name |-> NULL]

\* last_saved_action: None
NoSavedAction == [filename |-> NoFile, action_type |-> NULL, summary |-> NoFile]

\* the dict _reset_state assigns
ZeroState ==
    [intent |-> NULL, entities |-> NoEntities, awaiting_confirmation |-> FALSE,
     awaiting_email_addresses |-> FALSE, history |-> <<>>, session_active |-> FALSE,
     last_saved_action |-> NoSavedAction]

\* dict.update: every key of the delta overwrites, the others stay
Merge(e, delta) == [k \in EntityKeys |-> IF delta[k] # ABSENT THEN delta[k] ELSE e[k]]

\* _update_state_from_llm_response raises: item assignment or update on None,
\* update with None, .get on None
UpdateRaises(s, r) ==
    LET action_type == Field(r, "action_type", "chitchat")
        new_intent == Field(r, "intent", NULL)
        missing_entities == Field(r, "missing_entities", {})
        special == /\ new_intent = "send_email"
                   /\ s.intent = "schedule_meeting"
                   /\ "email_addresses" \in missing_entities
        providing == /\ ~special
                     /\ new_intent = "send_email"
                     /\ s.awaiting_email_addresses
    IN  \/ /\ action_type = "new_intent"
           /\ providing
           /\ \/ ~IsDict(Field(r, "entities", NoEntities))
              \/ /\ Truthy(Field(r, "entities", NoEntities)["recipient"])
                 /\ ~IsDict(s.entities)
        \/ /\ action_type = "correction"
           /\ Field(r, "correction_detected", FALSE)
           /\ \/ ~IsDict(s.entities)
              \/ ~IsDict(Field(r, "entities", NoEntities))

\* the new_intent branch (lines 160-187)
UpdateNewIntent(s, r) ==
    LET new_intent == Field(r, "intent", NULL)
        missing_entities == Field(r, "missing_entities", {})
        entities == Field(r, "entities", NoEntities)
    IN  IF /\ new_intent = "send_email"
           /\ s.intent = "schedule_meeting"
           /\ "email_addresses" \in missing_entities
        THEN [s EXCEPT !.awaiting_confirmation = FALSE,
                       !.awaiting_email_addresses = TRUE]
        ELSE IF new_intent = "send_email" /\ s.awaiting_email_addresses
        THEN IF Truthy(entities["recipient"])
             THEN [s EXCEPT !.entities = [@ EXCEPT !["recipient"] = entities["recipient"]],
                            !.intent = "send_email",
                            !.awaiting_email_addresses = FALSE,
                            !.awaiting_confirmation = Field(r, "needs_confirmation", TRUE)]
             ELSE s
        ELSE [s EXCEPT !.intent = new_intent,
                       !.entities = entities,
                       !.awaiting_confirmation = Field(r, "needs_confirmation", FALSE),
                       !.session_active = TRUE]

\* the correction branch (lines 189-194)
UpdateCorrection(s, r) ==
    IF Field(r, "correction_detected", FALSE)
    THEN [s EXCEPT !.entities = Merge(@, Field(r, "entities", NoEntities)),
                   !.awaiting_confirmation = Field(r, "needs_confirmation", TRUE)]
    ELSE s

\* the confirmation branch (lines 196-203)
UpdateConfirmation(s, r) ==
    IF Field(r, "ready_to_execute", FALSE)
    THEN [s EXCEPT !.awaiting_confirmation = FALSE]
    ELSE ZeroState

\* UpdateCancellation keeping the history of the cancelled session
UpdateCancellationKeepingHistory(s, r) == [ZeroState EXCEPT !.history = s.history]

\* the cancellation branch (lines 205-207)
UpdateCancellation(s, r) == ZeroState

\* UpdateChitchat marking the session active as an ordinary intent does
UpdateChitchatOpeningSession(s, r) ==
    IF ~s.session_active
    THEN [s EXCEPT !.intent = "chitchat", !.session_active = TRUE]
    ELSE s

\* the chitchat branch (lines 214-217)
UpdateChitchat(s, r) ==
    IF ~s.session_active THEN [s EXCEPT !.intent = "chitchat"] ELSE s

\* _update_state_from_llm_response when it does not raise
UpdateStateFromLLMResponse(s, r) ==
    LET action_type == Field(r, "action_type", "chitchat")
    IN  CASE action_type = "new_intent" -> UpdateNewIntent(s, r)
          [] action_type = "correction" -> UpdateCorrection(s, r)
          [] action_type = "confirmation" -> UpdateConfirmation(s, r)
          [] action_type = "cancellation" -> UpdateCancellation(s, r)
          [] action_type = "email_address_request" ->
                [s EXCEPT !.awaiting_email_addresses = TRUE,
                          !.awaiting_confirmation = FALSE]
          [] action_type = "chitchat" -> UpdateChitchat(s, r)
          [] OTHER -> s

\* _has_required_entities
HasRequiredEntities(s) ==
    IF s.intent = "schedule_meeting"
    THEN \A field \in {"title", "date", "time"} : Present(s.entities, field)
    ELSE IF s.intent = "send_email"
    THEN /\ Present(s.entities, "recipient")
         /\ Present(s.entities, "body") \/ Present(s.entities, "subject")
    ELSE TRUE

\* GetMissingEntities testing only the truthiness of a field, not str().strip()
GetMissingEntitiesUnstripped(s) ==
    IF s.intent = "schedule_meeting"
    THEN {field \in {"title", "date", "time"} : ~Truthy(s.entities[field])}
    ELSE IF s.intent = "send_email"
    THEN (IF Truthy(s.entities["recipient"]) THEN {} ELSE {"recipient"})
         \cup (IF Truthy(s.entities["body"]) \/ Truthy(s.entities["subject"])
               THEN {} ELSE {"body_or_subject"})
    ELSE {}

\* _get_missing_entities (as a set of field names)
GetMissingEntities(s) ==
    IF s.intent = "schedule_meeting"
    THEN {field \in {"title", "date", "time"} : ~Present(s.entities, field)}
    ELSE IF s.intent = "send_email"
    THEN (IF Present(s.entities, "recipient") THEN {} ELSE {"recipient"})
         \cup (IF Present(s.entities, "body") \/ Present(s.entities, "subject")
               THEN {} ELSE {"body_or_subject"})
    ELSE {}

\* is_ready_for_execution raises: entities.get on None
ReadyRaises(s) ==
    /\ s.session_active
    /\ s.intent \in {"schedule_meeting", "send_email"}
    /\ ~IsDict(s.entities)

\* IsReadyForExecution with the send_email branch forgetting the pending
\* confirmation
IsReadyIgnoringAwaiting(s) ==
    IF ~(s.session_active /\ s.intent \in {"schedule_meeting", "send_email"})
    THEN FALSE
    ELSE IF s.intent = "schedule_meeting"
    THEN /\ \A field \in {"title", "date", "time"} : Present(s.entities, field)
         /\ ~s.awaiting_confirmation
    ELSE /\ Present(s.entities, "recipient")
         /\ Present(s.entities, "body") \/ Present(s.entities, "subject")

\* IsReadyForExecution asking the email only for a recipient
IsReadyWithoutContent(s) ==
    IF ~(s.session_active /\ s.intent \in {"schedule_meeting", "send_email"})
    THEN FALSE
    ELSE IF s.intent = "schedule_meeting"
    THEN /\ \A field \in {"title", "date", "time"} : Present(s.entities, field)
         /\ ~s.awaiting_confirmation
    ELSE /\ Present(s.entities, "recipient")
         /\ ~s.awaiting_confirmation

\* is_ready_for_execution
IsReadyForExecution(s) ==
    IF ~(s.session_active /\ s.intent \in {"schedule_meeting", "send_email"})
    THEN FALSE
    ELSE IF s.intent = "schedule_meeting"
    THEN /\ \A field \in {"title", "date", "time"} : Present(s.entities, field)
         /\ ~s.awaiting_confirmation
    ELSE /\ Present(s.entities, "recipient")
         /\ Present(s.entities, "body") \/ Present(s.entities, "subject")
         /\ ~s.awaiting_confirmation

NoAction == [type |-> NULL, entities |-> NoEntities]

\* get_action_for_execution (None is NoAction)
GetActionForExecution(s) ==
    IF ~IsReadyForExecution(s) THEN NoAction
    ELSE [type |-> s.intent, entities |-> s.entities]

-----------------------------------------------------------------------------
(* Persistence: utils/helpers.py *)

\* validate_meeting_data: title, date and time; participants only recommended
validate_meeting_data(entities) ==
    \A field \in {"title", "date", "time"} :
        Truthy(entities[field]) /\ Stripped(entities[field])

\* validate_email_data: an address-shaped recipient and a subject or a body
validate_email_data(entities) ==
    /\ Truthy(entities["recipient"])
    /\ validate_email_addresses(entities["recipient"])
    /\ Present(entities, "subject") \/ Present(entities, "body")

\* the file name save_meeting_action / save_email_action build (without the
\* second-resolution timestamp)
FileName(action) ==
    IF action.type = "schedule_meeting"
    THEN [prefix |-> "meeting", name |-> action.entities["title"]]
    ELSE [prefix |-> "email",
          name |-> IF Present(action.entities, "subject")
                   THEN action.entities["subject"] ELSE "Message from Assistant"]

\* save_action_to_outbox: routes on the type, validates, writes the file.
\* io_ok is whether creating the directory and writing the file succeed.
SaveActionToOutbox(action, io_ok) ==
    LET valid == IF action.type = "schedule_meeting"
                 THEN validate_meeting_data(action.entities)
                 ELSE IF action.type = "send_email"
                 THEN validate_email_data(action.entities)
                 ELSE FALSE
    IN  [success |-> valid /\ io_ok, filename |-> FileName(action)]

\* get_action_summary: a display string naming the action (its kind and its
\* title or subject)
GetActionSummary(action) == FileName(action)

\* ResetSessionAfterExecution without the two lines that put the history back
ResetSessionDroppingHistory(s) ==
    [ZeroState EXCEPT !.last_saved_action = s.last_saved_action]

\* _reset_session_after_execution
ResetSessionAfterExecution(s) ==
    [ZeroState EXCEPT !.history = s.history,
                      !.last_saved_action = s.last_saved_action]

\* HandleActionExecution without the readiness gate of line 84: whatever the
\* state holds is handed to the save
HandleActionExecutionUngated(s, io_ok) ==
    LET action_data == [type |-> s.intent, entities |-> s.entities]
        save_result == SaveActionToOutbox(action_data, io_ok)
    IN  IF save_result.success
        THEN [state |-> ResetSessionAfterExecution(
                           [s EXCEPT !.last_saved_action =
                               [filename |-> save_result.filename,
                                action_type |-> action_data.type,
                                summary |-> GetActionSummary(action_data)]]),
              execution |-> "saved",
              files |-> <<action_data>>]
        ELSE [state |-> s, execution |-> "failed", files |-> <<>>]

\* HandleActionExecution treating a failed save like a successful one: the
\* session is reset although nothing was written
HandleActionExecutionResetOnFailure(s, io_ok) ==
    IF ~IsReadyForExecution(s)
    THEN [state |-> s, execution |-> "none", files |-> <<>>]
    ELSE LET action_data == GetActionForExecution(s)
             save_result == SaveActionToOutbox(action_data, io_ok)
         IN  IF save_result.success
             THEN [state |-> ResetSessionAfterExecution(
                                [s EXCEPT !.last_saved_action =
                                    [filename |-> save_result.filename,
                                     action_type |-> action_data.type,
                                     summary |-> GetActionSummary(action_data)]]),
                   execution |-> "saved",
                   files |-> <<action_data>>]
             ELSE [state |-> ResetSessionAfterExecution(s),
                   execution |-> "failed", files |-> <<>>]

\* HandleActionExecution returning at once: nothing is ever saved
HandleActionExecutionSkipped(s, io_ok) ==
    [state |-> s, execution |-> "none", files |-> <<>>]

\* _handle_action_execution (entities.get on None is ReadyRaises)
HandleActionExecution(s, io_ok) ==
    IF ~IsReadyForExecution(s)
    THEN [state |-> s, execution |-> "none", files |-> <<>>]
    ELSE LET action_data == GetActionForExecution(s)
             save_result == SaveActionToOutbox(action_data, io_ok)
         IN  IF action_data = NoAction
             THEN [state |-> s, execution |-> "none", files |-> <<>>]
             ELSE IF save_result.success
             THEN [state |-> ResetSessionAfterExecution(
                                [s EXCEPT !.last_saved_action =
                                    [filename |-> save_result.filename,
                                     action_type |-> action_data.type,
                                     summary |-> GetActionSummary(action_data)]]),
                   execution |-> "saved",
                   files |-> <<action_data>>]
             ELSE [state |-> s, execution |-> "failed", files |-> <<>>]

\* LastN keeping the oldest entries instead: history[:n]
FirstN(seq, n) ==
    IF Len(seq) <= n THEN seq ELSE SubSeq(seq, 1, n)

\* the last n elements of a list: history[-n:]
LastN(seq, n) ==
    IF Len(seq) <= n THEN seq ELSE SubSeq(seq, Len(seq) - n + 1, Len(seq))

\* AddToHistory recording the exchange twice
AddToHistoryTwice(s, user_input, bot_response) ==
    [s EXCEPT !.history =
        LastN(@ \o << [user_input |-> user_input, bot_response |-> bot_response,
                       state_snapshot |-> s.entities],
                      [user_input |-> user_input, bot_response |-> bot_response,
                       state_snapshot |-> s.entities] >>,
              max_history)]

\* _add_to_history (the timestamp is left out)
AddToHistory(s, user_input, bot_response) ==
    [s EXCEPT !.history =
        LastN(Append(@, [user_input |-> user_input,
                         bot_response |-> bot_response,
                         state_snapshot |-> s.entities]),
              max_history)]

-----------------------------------------------------------------------------
(* One turn: ConversationManager.process_message *)

\* the turn assigns state["intent"]: the ordinary new_intent branch or the
\* completed switch to send_email
OpensIntent(s, r) ==
    /\ Field(r, "action_type", "chitchat") = "new_intent"
    /\ ~(/\ Field(r, "intent", NULL) = "send_email"
         /\ s.intent = "schedule_meeting"
         /\ "email_addresses" \in Field(r, "missing_entities", {}))
    /\ \/ ~(Field(r, "intent", NULL) = "send_email" /\ s.awaiting_email_addresses)
       \/ Truthy(Field(r, "entities", NoEntities)["recipient"])

\* the confirmation branch took its positive arm
PositiveConfirmation(r) ==
    /\ Field(r, "action_type", "chitchat") = "confirmation"
    /\ Field(r, "ready_to_execute", FALSE)

\* the value of `confirmed` when the execution step of the turn runs
ConfirmedAtExecution(s, r, before) ==
    IF PositiveConfirmation(r) THEN TRUE
    ELSE IF Field(r, "action_type", "chitchat") \in {"confirmation", "cancellation"}
    THEN FALSE
    ELSE IF OpensIntent(s, r) THEN FALSE
    ELSE before

\* error_response of process_message's exception handler (lines 64-72)
ManagerErrorResponse ==
    [present |-> ParsedFields \ {"correction_detected"}, origin |-> "manager_error",
     action_type |-> "error", intent |-> "chitchat", entities |-> NoEntities,
     response |-> "manager_apology", needs_confirmation |-> FALSE,
     ready_to_execute |-> FALSE, correction_detected |-> FALSE,
     missing_entities |-> {}]

\* TurnResult with an exception handler that still runs the execution step
TurnResultSavingAfterRaise(s, conf, user_input, llm_response, io_ok) ==
    LET raised_update == UpdateRaises(s, llm_response)
        updated == IF raised_update THEN s
                   ELSE UpdateStateFromLLMResponse(s, llm_response)
        raised == raised_update \/ ReadyRaises(updated)
        exec == IF ReadyRaises(updated)
                THEN [state |-> updated, execution |-> "none", files |-> <<>>]
                ELSE HandleActionExecution(updated, io_ok)
        response == IF raised THEN ManagerErrorResponse ELSE llm_response
    IN  [state |-> AddToHistory(exec.state, user_input, response.response),
         user_input |-> user_input,
         response |-> response,
         updated |-> updated,
         execution |-> exec.execution,
         files |-> exec.files,
         ready_at_execution |-> ~raised /\ IsReadyForExecution(updated),
         confirmed_at_execution |-> conf,
         confirmed |-> conf]

\* TurnResult with the history entry appended before the execution step
TurnResultHistoryFirst(s, conf, user_input, llm_response, io_ok) ==
    LET raised_update == UpdateRaises(s, llm_response)
        updated == IF raised_update THEN s
                   ELSE UpdateStateFromLLMResponse(s, llm_response)
        raised == raised_update \/ ReadyRaises(updated)
        response == IF raised THEN ManagerErrorResponse ELSE llm_response
        appended == AddToHistory(updated, user_input, response.response)
        exec == IF raised
                THEN [state |-> appended, execution |-> "none", files |-> <<>>]
                ELSE HandleActionExecution(appended, io_ok)
    IN  [state |-> exec.state,
         user_input |-> user_input,
         response |-> response,
         updated |-> updated,
         execution |-> exec.execution,
         files |-> exec.files,
         ready_at_execution |-> ~raised /\ IsReadyForExecution(updated),
         confirmed_at_execution |-> conf,
         confirmed |-> conf]

\* process_message as a function of the session state, the user's text, the
\* dict the classifier boundary returned and the outcome of the file write:
\*   state      the session state when the call returns
\*   user_input the text the call was made with
\*   response   the dict returned to the caller
\*   updated    the state after _update_state_from_llm_response (line 48)
\*   execution  what _handle_action_execution did: "none", "saved", "failed"
\*   files      the actions written to the outbox
TurnResult(s, conf, user_input, llm_response, io_ok) ==
    LET raised_update == UpdateRaises(s, llm_response)
        updated == IF raised_update THEN s
                   ELSE UpdateStateFromLLMResponse(s, llm_response)
        raised == raised_update \/ ReadyRaises(updated)
        exec == IF raised
                THEN [state |-> updated, execution |-> "none", files |-> <<>>]
                ELSE HandleActionExecution(updated, io_ok)
        response == IF raised THEN ManagerErrorResponse ELSE llm_response
        conf_exec == IF raised_update THEN conf
                     ELSE ConfirmedAtExecution(s, llm_response, conf)
    IN  [state |-> AddToHistory(exec.state, user_input, response.response),
         user_input |-> user_input,
         response |-> response,
         updated |-> updated,
         execution |-> exec.execution,
         files |-> exec.files,
         ready_at_execution |-> ~raised /\ IsReadyForExecution(updated),
         confirmed_at_execution |-> conf_exec,
         confirmed |-> IF exec.execution = "saved" THEN FALSE ELSE conf_exec]

\* the outcomes of the file write the turn can meet: one when nothing is saved
SaveOutcomes(s, llm_response) ==
    IF /\ ~UpdateRaises(s, llm_response)
       /\ IsReadyForExecution(UpdateStateFromLLMResponse(s, llm_response))
    THEN BOOLEAN ELSE {TRUE}

\* what `last` keeps of a call
Observed(t) ==
    [origin |-> t.response.origin,
     user_input |-> t.user_input,
     reply |-> t.response.response,
     action_type |-> t.response.action_type,
     entities |-> t.response.entities,
     ready_to_execute |-> t.response.ready_to_execute,
     execution |-> t.execution,
     ready_at_execution |-> t.ready_at_execution,
     confirmed_at_execution |-> t.confirmed_at_execution]

NoTurn ==
    [origin |-> "none", user_input |-> NULL, reply |-> NULL,
     action_type |-> "none", entities |-> NoEntities,
     ready_to_execute |-> FALSE,
     execution |-> "none", ready_at_execution |-> FALSE,
     confirmed_at_execution |-> FALSE]

\* one call of process_message on the session
ProcessMessageCall(user_input, llm_response) ==
    /\ \E io_ok \in SaveOutcomes(state, llm_response) :
         LET t == TurnResult(state, confirmed, user_input, llm_response, io_ok)
         IN  /\ state' = t.state
             /\ outbox' = outbox \o t.files
             /\ turns' = turns + 1
             /\ confirmed' = t.confirmed
             /\ last' = Observed(t)
    /\ UNCHANGED outside

ProcessMessage(user_input, llm_response) ==
    /\ turns < MaxTurns
    /\ ProcessMessageCall(user_input, llm_response)

\* nothing returned by get_current_state() yet
NoSnapshot == [taken |-> FALSE, turns |-> 0, again |-> FALSE, value |-> ZeroState]

\* the session ids main.py is called with
SessionIds == {"s1", "s2"}

\* a session id that is not in the registry
NoManager == [oid |-> 0, state |-> ZeroState]

\* the threads the web framework runs the handlers of one session on
Threads == {"t1", "t2"}

\* a thread that is not inside process_message
NotCalling == [pc |-> "idle", user_input |-> NULL, context |-> ZeroState]

\* no helper called directly yet
NoProbe == [fn |-> "none"]

\* reset_conversation
ResetConversation ==
    /\ state' = ZeroState
    /\ confirmed' = FALSE
    /\ last' = [NoTurn EXCEPT !.origin = "reset"]
    /\ UNCHANGED <<outbox, turns>>
    /\ UNCHANGED outside

Init ==
    /\ state = ZeroState
    /\ outbox = <<>>
    /\ turns = 0
    /\ last = NoTurn
    /\ confirmed = FALSE
    /\ snap = NoSnapshot
    /\ conversation_managers = [id \in SessionIds |-> NoManager]
    /\ session_id = NULL
    /\ inflight = [t \in Threads |-> NotCalling]
    /\ probe = NoProbe

\* what LLMClient.process_message returns for the classifier outputs
ClientResponses == {LLMClientProcessMessage(raw) : raw \in RawOutputs}

Turn ==
    \E user_input \in UserInputs, llm_response \in ClientResponses :
        ProcessMessage(user_input, llm_response)

Next ==
    \/ Turn
    \/ ResetConversation

Spec == Init /\ [][Next]_vars

-----------------------------------------------------------------------------
(* The callers of the state machine and the data it hands out *)

\* Data handed out: its value, and the parts of it that are the very objects
\* the session state holds (a write to such a part is a write to the state)

\* CurrentState leaving the history out of the copy
CurrentStateWithoutHistory(s) == [s EXCEPT !.history = <<>>]

\* get_current_state: copy.deepcopy(self.state)
CurrentState(s) == s

HandedSnapshot(s) == [value |-> CurrentState(s), shares |-> {}]

\* get_action_for_execution: "entities": self.state["entities"], the dict itself
HandedAction(s) == [value |-> GetActionForExecution(s), shares |-> {"entities"}]

\* _build_context_for_llm: entities deep-copied; history[-5:] is a new list
\* of the same entry dicts
HandedContext(s) ==
    [value |-> [intent |-> s.intent, entities |-> s.entities,
                awaiting_confirmation |-> s.awaiting_confirmation,
                awaiting_email_addresses |-> s.awaiting_email_addresses,
                session_active |-> s.session_active,
                history |-> LastN(s.history, 5)],
     shares |-> {"history_entries"}]

\* handed.value["entities"][k] = v, seen from the session state
WriteEntity(s, handed, k, v) ==
    IF "entities" \in handed.shares THEN [s EXCEPT !.entities[k] = v] ELSE s

\* handed.value["history"][-1]["bot_response"] = v, seen from the session state
WriteNewestEntry(s, handed, v) ==
    IF "history_entries" \in handed.shares /\ s.history # <<>>
    THEN [s EXCEPT !.history[Len(s.history)].bot_response = v]
    ELSE s

\* the keys and the value a caller writes
EditedKeys == {"title", "recipient"}
Edited == "edited"

\* a call or a write other than process_message
Outside(origin) == [NoTurn EXCEPT !.origin = origin]

GetCurrentState ==
    /\ snap' = [taken |-> TRUE, turns |-> turns,
                again |-> last.origin = "get_current_state",
                value |-> HandedSnapshot(state).value]
    /\ last' = Outside("get_current_state")
    /\ UNCHANGED <<state, outbox, turns, confirmed, conversation_managers, session_id,
                   inflight, probe>>

\* the caller changes the snapshot get_current_state() gave it
CallerEditsSnapshot ==
    /\ \E k \in EditedKeys :
          state' = WriteEntity(state, HandedSnapshot(state), k, Edited)
    /\ last' = Outside("snapshot_edit")
    /\ UNCHANGED <<outbox, turns, confirmed>>
    /\ UNCHANGED outside

\* the caller changes the action get_action_for_execution() gave it
CallerEditsAction ==
    /\ HandedAction(state).value # NoAction
    /\ \E k \in EditedKeys :
          state' = WriteEntity(state, HandedAction(state), k, Edited)
    /\ last' = Outside("action_edit")
    /\ UNCHANGED <<outbox, turns, confirmed>>
    /\ UNCHANGED outside

\* the classifier changes the context it was called with
ClassifierEditsContext ==
    /\ \/ \E k \in EditedKeys :
             state' = WriteEntity(state, HandedContext(state), k, Edited)
       \/ /\ HandedContext(state).value.history # <<>>
          /\ state' = WriteNewestEntry(state, HandedContext(state), Edited)
    /\ last' = Outside("context_edit")
    /\ UNCHANGED <<outbox, turns, confirmed>>
    /\ UNCHANGED outside

\* the classifier outputs of the conversations the callers are followed in
CallerResponses ==
    {LLMClientProcessMessage(raw) :
        raw \in {Json("new_intent", "schedule_meeting", MeetingFull, FALSE, FALSE, FALSE, {}),
                 Json("new_intent", "send_email", EmailFull, TRUE, FALSE, FALSE, {}),
                 Json("chitchat", "chitchat", NoEntities, FALSE, FALSE, FALSE, {})}}

\* the user's text takes no part in what the callers are followed for
CallerTurn ==
    \E llm_response \in CallerResponses :
        ProcessMessage("yes", llm_response)

NextCallers ==
    \/ CallerTurn
    \/ ResetConversation
    \/ GetCurrentState
    \/ CallerEditsSnapshot
    \/ CallerEditsAction
    \/ ClassifierEditsContext

SpecCallers == Init /\ [][NextCallers]_vars

-----------------------------------------------------------------------------
(* The session registry: main.py *)

\* the managers the registry holds
Created(managers) == {id \in SessionIds : managers[id] # NoManager}

\* GetConversationManager building a new manager on every call
GetConversationManagerAlwaysNew(managers, id) ==
    [managers EXCEPT ![id] = [oid |-> Cardinality(Created(managers)) + 1,
                              state |-> ZeroState]]

\* get_conversation_manager: the registry after the call (oid tells the
\* ConversationManager objects apart)
GetConversationManager(managers, id) ==
    IF managers[id] = NoManager
    THEN [managers EXCEPT ![id] = [oid |-> Cardinality(Created(managers)) + 1,
                                   state |-> ZeroState]]
    ELSE managers

\* a message that message.strip() empties
Blank == " "

\* main.process_message: a blank message returns at once, any other one is
\* processed by the session's manager
MainProcessMessage(id, message, llm_response) ==
    /\ session_id' = id
    /\ IF message = Blank
       THEN UNCHANGED <<conversation_managers, outbox, turns>>
       ELSE /\ turns < MaxTurns
            /\ LET managers == GetConversationManager(conversation_managers, id)
                   manager == managers[id]
               IN  \E io_ok \in SaveOutcomes(manager.state, llm_response) :
                      LET t == TurnResult(manager.state, FALSE, message,
                                          llm_response, io_ok)
                      IN  /\ conversation_managers' =
                                [managers EXCEPT ![id].state = t.state]
                          /\ outbox' = outbox \o t.files
            /\ turns' = turns + 1
    /\ UNCHANGED <<state, last, confirmed, snap, inflight, probe>>

\* main.clear_chat
ClearChat(id) ==
    /\ session_id' = id
    /\ conversation_managers' =
          IF conversation_managers[id] # NoManager
          THEN [conversation_managers EXCEPT ![id].state = ZeroState]
          ELSE conversation_managers
    /\ UNCHANGED <<state, outbox, turns, last, confirmed, snap, inflight, probe>>

SessionRequest ==
    \E id \in SessionIds, message \in UserInputs \cup {Blank},
       llm_response \in CallerResponses :
        MainProcessMessage(id, message, llm_response)

SessionClear == \E id \in SessionIds : ClearChat(id)

NextSessions ==
    \/ SessionRequest
    \/ SessionClear

SpecSessions == Init /\ [][NextSessions]_vars

-----------------------------------------------------------------------------
(* Two handlers of one session running at the same time *)

\* the threads inside process_message
Calling == {t \in Threads : inflight[t].pc # "idle"}

\* process_message up to the classifier call (lines 40-45): nothing is
\* acquired, the context is read from the state and the request is sent
CallBegins(t, user_input) ==
    /\ inflight[t].pc = "idle"
    /\ turns + Cardinality(Calling) < MaxTurns
    /\ inflight' = [inflight EXCEPT ![t] =
                        [pc |-> "classifying", user_input |-> user_input,
                         context |-> state]]
    /\ UNCHANGED <<state, outbox, turns, last, confirmed, snap,
                   conversation_managers, session_id, probe>>

\* process_message from the classifier's answer on (lines 47-60), on the
\* state as it is by then
CallReturns(t, llm_response) ==
    /\ inflight[t].pc = "classifying"
    /\ \E io_ok \in SaveOutcomes(state, llm_response) :
          LET r == TurnResult(state, confirmed, inflight[t].user_input,
                              llm_response, io_ok)
          IN  /\ state' = r.state
              /\ outbox' = outbox \o r.files
              /\ turns' = turns + 1
              /\ confirmed' = r.confirmed
              /\ last' = Observed(r)
    /\ inflight' = [inflight EXCEPT ![t] = NotCalling]
    /\ UNCHANGED <<snap, conversation_managers, session_id, probe>>

Begin == \E t \in Threads, user_input \in UserInputs : CallBegins(t, user_input)

Return == \E t \in Threads, llm_response \in CallerResponses : CallReturns(t, llm_response)

NextConcurrent ==
    \/ Begin
    \/ Return

SpecConcurrent == Init /\ [][NextConcurrent]_vars

-----------------------------------------------------------------------------
(* A long conversation: small talk, with a declined confirmation now and then *)

SmallTalk ==
    {LLMClientProcessMessage(raw) :
        raw \in {Json("chitchat", "chitchat", NoEntities, FALSE, FALSE, FALSE, {}),
                 JsonShort("confirmation", FALSE, FALSE)}}

LongTurn ==
    /\ turns < MaxLongTurns
    /\ \E user_input \in UserInputs, llm_response \in SmallTalk :
          ProcessMessageCall(user_input, llm_response)

NextLong == LongTurn

SpecLong == Init /\ [][NextLong]_vars

-----------------------------------------------------------------------------
(* A conversation that asks for email addresses and gets them: three calls *)

\* the classifier outputs of such a conversation: an email, complete or not,
\* a request for the addresses, and a complete meeting to switch from
SwitchOutputs ==
    {Json("new_intent", "send_email", e, nc, FALSE, FALSE, miss) :
        e \in PayloadsOf("send_email"), nc \in BOOLEAN,
        miss \in {{}, {"email_addresses"}}}
    \cup {Json("new_intent", "schedule_meeting", MeetingFull, TRUE, FALSE, FALSE, {}),
          Json("email_address_request", "chitchat", NoEntities, FALSE, FALSE, FALSE, {})}

SwitchResponses == {LLMClientProcessMessage(raw) : raw \in SwitchOutputs}

SwitchTurn ==
    /\ turns < MaxSwitchTurns
    /\ \E llm_response \in SwitchResponses : ProcessMessageCall("yes", llm_response)

NextSwitch == SwitchTurn

SpecSwitch == Init /\ [][NextSwitch]_vars

-----------------------------------------------------------------------------
(* Properties *)

OpenIntents == {"schedule_meeting", "send_email"}

Confirmations == {r \in ClientResponses : r.action_type = "confirmation"}

\* the session state without its history
Core(s) == [s EXCEPT !.history = <<>>]

\* C1: an action is handed to persistence only after the user confirmed it:
\* whenever a turn called the save, a confirmation turn with a positive
\* outcome had happened since the intent was opened.
C1_SaveOnlyAfterConfirmation ==
    last.execution # "none" => last.confirmed_at_execution

\* C2: while awaiting_confirmation is true is_ready_for_execution() is false,
\* in the state a call returns with and in the state each transition produces.
C2_AwaitingBlocksExecution ==
    /\ state.awaiting_confirmation => ~IsReadyForExecution(state)
    /\ turns < MaxTurns =>
         \A r \in ClientResponses :
            ~UpdateRaises(state, r) =>
                LET u == UpdateStateFromLLMResponse(state, r)
                IN  u.awaiting_confirmation => ~IsReadyForExecution(u)

C2_Witness ==
    /\ state.awaiting_confirmation
    /\ state.session_active
    /\ state.intent \in OpenIntents
    /\ HasRequiredEntities(state)

\* C3: the outbox changes only in the execution step of a turn, the save is
\* called only in a state where is_ready_for_execution() is true, and
\* get_action_for_execution() returns an action exactly in such a state.
C3_OnlyExecutionPersists ==
    /\ [](/\ (GetActionForExecution(state) # NoAction) <=> IsReadyForExecution(state)
          /\ last.execution # "none" => last.ready_at_execution
          /\ turns < MaxTurns =>
               \A u \in UserInputs, r \in ClientResponses, io_ok \in BOOLEAN :
                  LET t == TurnResult(state, confirmed, u, r, io_ok)
                  IN  /\ (GetActionForExecution(t.updated) # NoAction)
                            <=> IsReadyForExecution(t.updated)
                      /\ t.files # <<>> =>
                            /\ IsReadyForExecution(t.updated)
                            /\ t.files = <<GetActionForExecution(t.updated)>>)
    /\ [][outbox' # outbox =>
            /\ turns' = turns + 1
            /\ last'.execution = "saved"
            /\ last'.ready_at_execution
            /\ Len(outbox') = Len(outbox) + 1]_vars

C3_Witness == last.execution = "saved" /\ outbox # <<>>

\* a step that is one process_message call
IsTurn == turns' = turns + 1

\* the text the user typed in the call that has just returned
UserSaid(s) == s.history[Len(s.history)].user_input

\* C4: a correction turn right after a new_intent turn leaves every entity key
\* it does not mention as it was and gives every key it mentions its value.
C4_CorrectionMergesAfterNewIntent ==
    [][(IsTurn /\ last.action_type = "new_intent" /\ last'.action_type = "correction") =>
          \A k \in EntityKeys :
              state'.entities[k] =
                  IF last'.entities[k] # ABSENT THEN last'.entities[k]
                  ELSE state.entities[k]]_vars

\* C5: "yes" on a confirmation turn while required fields are missing neither
\* marks the action ready nor resets the session.
C5_YesWithMissingFieldsKeepsSession ==
    [][(/\ IsTurn
        /\ last'.action_type = "confirmation"
        /\ UserSaid(state') = "yes"
        /\ state.intent \in OpenIntents
        /\ ~HasRequiredEntities(state)) =>
          /\ ~last'.ready_at_execution
          /\ outbox' = outbox
          /\ state'.intent = state.intent
          /\ state'.entities = state.entities]_vars

\* C6: on a confirmation turn the user's text decides: "yes" with complete
\* fields confirms whatever ready_to_execute says, "no" resets whatever it says.
C6_UserTextDecidesConfirmation ==
    [][(/\ IsTurn
        /\ last'.action_type = "confirmation"
        /\ state.intent \in OpenIntents
        /\ state.session_active
        /\ state.awaiting_confirmation
        /\ HasRequiredEntities(state)) =>
          /\ UserSaid(state') = "yes" => last'.ready_at_execution
          /\ UserSaid(state') = "no" =>
                /\ last'.execution = "none"
                /\ state'.intent = NULL
                /\ state'.entities = NoEntities]_vars

\* C7: with a complete schedule_meeting awaiting confirmation, a turn with the
\* input "yes" clears awaiting_confirmation and makes the action ready.
C7_YesMakesMeetingReady ==
    [][(/\ IsTurn
        /\ last'.action_type = "confirmation"
        /\ UserSaid(state') = "yes"
        /\ state.intent = "schedule_meeting"
        /\ HasRequiredEntities(state)
        /\ state.awaiting_confirmation) =>
          /\ last'.ready_at_execution
          /\ ~state'.awaiting_confirmation]_vars

\* C8: with an open intent awaiting confirmation, a turn with the input "no"
\* resets the state to its zero value and drops the earlier history.
C8_NoResetsEverything ==
    [][(/\ IsTurn
        /\ last'.action_type = "confirmation"
        /\ UserSaid(state') = "no"
        /\ state.intent \in OpenIntents
        /\ state.awaiting_confirmation) =>
          /\ Core(state') = Core(ZeroState)
          /\ Len(state'.history) = 1]_vars

\* C9: after a new_intent turn for schedule_meeting with title, date and time
\* but no participants the action is not ready and participants is missing.
C9_MeetingWithoutParticipantsNotReady ==
    (/\ last.action_type = "new_intent"
     /\ state.intent = "schedule_meeting"
     /\ \A k \in {"title", "date", "time"} : Present(state.entities, k)
     /\ state.entities["participants"] = ABSENT) =>
        /\ ~IsReadyForExecution(state)
        /\ "participants" \in GetMissingEntities(state)

\* the history after one more exchange
HistoryPlus(s, user_input, bot_response) ==
    LastN(Append(s.history, [user_input |-> user_input, bot_response |-> bot_response,
                             state_snapshot |-> s.entities]),
          max_history)

\* C10 as stated: a turn whose classifier output does not parse returns the
\* apology with action_type "error", appends one history entry and changes
\* nothing else, from every reachable state.
C10_ParseErrorChangesOnlyHistory ==
    [][(IsTurn /\ last'.origin = "parse_error") =>
          /\ last'.action_type = "error"
          /\ state'.history = HistoryPlus(state, UserSaid(state'), "parse_apology")
          /\ Core(state') = Core(state)
          /\ outbox' = outbox]_vars

\* C10 amended: the same, except that from a state a failed save left ready
\* the turn calls the save again; when that succeeds the action is written
\* and the session is reset with its history kept.
C10_ParseErrorRetriesPendingSave ==
    turns < MaxTurns =>
        \A u \in UserInputs, io_ok \in BOOLEAN :
            LET t == TurnResult(state, confirmed, u, LLMClientProcessMessage(Unparsable), io_ok)
                kept == [state EXCEPT !.entities = t.state.entities]
            IN  /\ t.response.action_type = "error"
                /\ t.response.response = "parse_apology"
                /\ t.updated = state
                /\ t.state.history = HistoryPlus(kept, u, "parse_apology")
                /\ IF t.execution = "saved"
                   THEN /\ IsReadyForExecution(state)
                        /\ t.files = <<GetActionForExecution(state)>>
                        /\ t.state.last_saved_action.action_type = state.intent
                        /\ [Core(t.state) EXCEPT !.last_saved_action = NoSavedAction]
                              = Core(ZeroState)
                   ELSE /\ Core(t.state) = Core(state)
                        /\ t.files = <<>>
                        /\ (t.execution = "failed") <=> IsReadyForExecution(state)

C10_Witness == last.origin = "parse_error" /\ last.execution = "saved"

\* the reply text recorded for the call that has just returned
ReplyGiven(s) == s.history[Len(s.history)].bot_response

\* a confirmation sentence naming the title, date and time of e
ComposedConfirmation(e) ==
    "confirm " \o e["title"] \o " on " \o e["date"] \o " at " \o e["time"]

\* C11: a correction turn that supplies the last missing required field while
\* no confirmation is pending sets awaiting_confirmation and replies with a
\* confirmation sentence composed from the merged title, date and time instead
\* of the classifier's text.
C11_CorrectionCompletingAsksConfirmation ==
    [][(/\ IsTurn
        /\ last'.origin = "classifier"
        /\ last'.action_type = "correction"
        /\ IsDict(last'.entities)
        /\ state.session_active
        /\ state.intent \in OpenIntents
        /\ ~state.awaiting_confirmation
        /\ ~HasRequiredEntities(state)
        /\ HasRequiredEntities([state EXCEPT !.entities = Merge(@, last'.entities)])) =>
          /\ state'.awaiting_confirmation
          /\ state'.entities = Merge(state.entities, last'.entities)
          /\ ReplyGiven(state') # "llm_reply"
          /\ state.intent = "schedule_meeting" =>
                ReplyGiven(state') = ComposedConfirmation(state'.entities)]_vars

\* the entries of history h that are still there after one more is added
Retained(h) == IF Len(h) < max_history THEN h ELSE Tail(h)

\* the history without its newest entry
Earlier(h) == SubSeq(h, 1, Len(h) - 1)

\* C12: a turn on which the ready action is saved ends with intent none,
\* entities empty and every flag false, keeps the history recorded before the
\* turn, and sets last_saved_action from the result of the save.
C12_SaveResetsSessionKeepingHistory ==
    [][(IsTurn /\ last'.execution = "saved") =>
          /\ state'.intent = NULL
          /\ state'.entities = NoEntities
          /\ ~state'.awaiting_confirmation
          /\ ~state'.awaiting_email_addresses
          /\ ~state'.session_active
          /\ Earlier(state'.history) = Retained(state.history)
          /\ outbox' # outbox
          /\ LET saved == outbox'[Len(outbox')]
             IN  /\ state'.last_saved_action.action_type = saved.type
                 /\ state'.last_saved_action.filename =
                        SaveActionToOutbox(saved, TRUE).filename]_vars

C12_Witness ==
    /\ last.execution = "saved"
    /\ Len(state.history) = 2
    /\ state.intent = NULL
    /\ state.last_saved_action.action_type \in OpenIntents

\* the classifier responses that fit what `last` records of a call
ResponsesSeen(l) ==
    {r \in ClientResponses : /\ r.origin = l.origin
                             /\ r.action_type = l.action_type
                             /\ r.entities = l.entities
                             /\ r.ready_to_execute = l.ready_to_execute}

\* C13: a turn on which the save of the ready action fails leaves intent,
\* entities and flags as the transition of that turn left them (the action is
\* still ready, nothing is written), and its result is a failed execution,
\* which a turn whose action was not ready never carries.
C13_FailedSaveKeepsSession ==
    [][IsTurn =>
          /\ last'.execution = "failed" =>
                /\ last'.ready_at_execution
                /\ outbox' = outbox
                /\ IsReadyForExecution(state')
                /\ state'.last_saved_action = state.last_saved_action
                /\ \E r \in ResponsesSeen(last') :
                      /\ ~UpdateRaises(state, r)
                      /\ Core(state') = Core(UpdateStateFromLLMResponse(state, r))
          /\ ~last'.ready_at_execution => last'.execution = "none"]_vars

C13_Witness ==
    /\ last.execution = "failed"
    /\ IsReadyForExecution(state)
    /\ outbox = <<>>

\* C14: the history never holds more than max_history entries, and a turn
\* that adds an entry to a full history drops the oldest one: the entries kept
\* are the most recent ones in the order they were added.
C14_HistoryBoundedFifo ==
    /\ [](Len(state.history) <= max_history)
    /\ [][IsTurn =>
            /\ Len(state'.history) >= 1
            /\ \/ Earlier(state'.history) = <<>>
               \/ /\ Len(state.history) < max_history
                  /\ Earlier(state'.history) = state.history
               \/ /\ Len(state.history) = max_history
                  /\ Len(state'.history) = max_history
                  /\ Earlier(state'.history) = Tail(state.history)]_vars

C14_Witness ==
    /\ turns > max_history
    /\ Len(state.history) = max_history
    /\ state.history[1].user_input # state.history[max_history].user_input

\* C15: every process_message call, whatever the classifier returned and
\* whether or not the call raised inside, adds exactly one entry to the history
\* it keeps (the history before the call, or the empty one where the
\* transition reset the session), and the entry holds the call's user input
\* and the reply the call returned.
C15_EveryCallAppendsOneEntry ==
    [][IsTurn =>
          /\ Len(state'.history) >= 1
          /\ UserSaid(state') = last'.user_input
          /\ ReplyGiven(state') = last'.reply
          /\ \/ Earlier(state'.history) = Retained(state.history)
             \/ /\ Earlier(state'.history) = <<>>
                /\ last'.action_type \in {"confirmation", "cancellation"}]_vars

C15_Witness ==
    /\ last.origin = "manager_error"
    /\ Len(state.history) = 2
    /\ ReplyGiven(state) = "manager_apology"

\* the ways a process_message call comes back: with the classifier's dict,
\* with one of the two fallbacks of the classifier boundary, or with the
\* fallback of process_message's own handler
Returned == {"classifier", "parse_error", "client_error", "manager_error"}

\* C16: whatever the classifier and the save do, a process_message call
\* comes back with a structured response, and that response holds a reply text.
C16_AlwaysReturnsReplyText ==
    last.origin # "none" /\ last.origin # "reset" =>
        /\ last.origin \in Returned
        /\ last.reply # NULL
        /\ last.reply # ABSENT

\* the validation save_action_to_outbox applies to an action
PassesValidation(action) ==
    IF action.type = "schedule_meeting" THEN validate_meeting_data(action.entities)
    ELSE IF action.type = "send_email" THEN validate_email_data(action.entities)
    ELSE FALSE

\* C17: in every state where is_ready_for_execution() is true, the action
\* get_action_for_execution() returns satisfies the completeness rules of its
\* intent (an address-shaped recipient for send_email) and so passes the
\* validation of the save.
C17_ReadyActionPassesValidation ==
    IsReadyForExecution(state) =>
        /\ GetActionForExecution(state) # NoAction
        /\ PassesValidation(GetActionForExecution(state))

\* the writes a caller makes to data the state machine handed out
CallerWrites == {"snapshot_edit", "action_edit", "context_edit"}

\* C18: a write to a snapshot returned by get_current_state(), to the context
\* given to the classifier or to an action returned by
\* get_action_for_execution() leaves the session state as it was.
C18_HandedOutDataNeverAliases ==
    [][last'.origin \in CallerWrites => state' = state]_vars

C20_SessionsIsolated ==
    /\ [](\A i, j \in Created(conversation_managers) :
              i # j => conversation_managers[i].oid # conversation_managers[j].oid)
    /\ [][/\ \A id \in Created(conversation_managers) :
                /\ id \in Created(conversation_managers')
                /\ conversation_managers'[id].oid = conversation_managers[id].oid
          /\ \A id \in SessionIds :
                id # session_id' => conversation_managers'[id] = conversation_managers[id]
          /\ IsTurn => session_id' \in Created(conversation_managers')]_vars

C20_Witness ==
    /\ Created(conversation_managers) = SessionIds
    /\ session_id = "s2"
    /\ conversation_managers["s1"].state.intent \in OpenIntents
    /\ conversation_managers["s2"].state = ZeroState
    /\ turns = 2

\* C21: the process_message calls of one session run one at a time: no call
\* reads the session state while another call is between reading it and
\* appending its history entry, so every call changes the state it read.
C21_OneTurnAtATime ==
    /\ [](Cardinality(Calling) <= 1)
    /\ [][\A t \in Threads :
            (inflight[t].pc = "classifying" /\ inflight'[t].pc = "idle") =>
                inflight[t].context = state]_vars

\* the zero state apart from the history
IsZero(s) ==
    /\ s.intent = NULL
    /\ s.entities = NoEntities
    /\ ~s.awaiting_confirmation
    /\ ~s.awaiting_email_addresses
    /\ ~s.session_active
    /\ s.last_saved_action = NoSavedAction

\* C22: a cancellation turn resets the session whatever state it was in (only
\* the entry of the cancellation turn itself is in the history afterwards and
\* nothing is saved); reset_conversation() gives the state a freshly
\* constructed manager has, with an empty history.
C22_CancellationResets ==
    /\ [](last.origin = "none" => IsZero(state) /\ state.history = <<>>)
    /\ [][/\ (IsTurn /\ last'.action_type = "cancellation") =>
                /\ IsZero(state')
                /\ Len(state'.history) = 1
                /\ outbox' = outbox
          /\ (~IsTurn /\ last'.origin = "reset") =>
                /\ IsZero(state')
                /\ state'.history = <<>>]_vars

C22_Witness ==
    /\ last.action_type = "cancellation"
    /\ turns = 2
    /\ IsZero(state)
    /\ Len(state.history) = 1
    /\ outbox = <<>>

\* the step is a process_message call on which the classifier boundary
\* returned r
StepOf(r) ==
    /\ IsTurn
    /\ r \in ResponsesSeen(last')
    /\ \E io_ok \in BOOLEAN :
          LET t == TurnResult(state, confirmed, last'.user_input, r, io_ok)
          IN  /\ state' = t.state
              /\ outbox' = outbox \o t.files
              /\ last' = Observed(t)

\* r asks to switch from the meeting to an email whose addresses are missing
SwitchRequested(s, r) ==
    /\ Field(r, "action_type", "chitchat") = "new_intent"
    /\ Field(r, "intent", NULL) = "send_email"
    /\ s.intent = "schedule_meeting"
    /\ "email_addresses" \in Field(r, "missing_entities", {})

\* r is an email intent arriving while email addresses are awaited
AddressesAnswered(s, r) ==
    /\ Field(r, "action_type", "chitchat") = "new_intent"
    /\ Field(r, "intent", NULL) = "send_email"
    /\ ~SwitchRequested(s, r)
    /\ s.awaiting_email_addresses

\* r is a new intent that is neither of the two
OrdinaryNewIntent(s, r) ==
    /\ Field(r, "action_type", "chitchat") = "new_intent"
    /\ ~SwitchRequested(s, r)
    /\ ~AddressesAnswered(s, r)

\* C23: an ordinary new_intent turn ends with the classifier's intent and
\* entities in place of the previous ones, session_active true and
\* awaiting_confirmation equal to the classifier's needs_confirmation.
C23_NewIntentReplacesWholesale ==
    [][\A r \in ClientResponses :
          (StepOf(r) /\ OrdinaryNewIntent(state, r)) =>
              /\ state'.intent = r.intent
              /\ state'.entities = r.entities
              /\ state'.session_active
              /\ state'.awaiting_confirmation = Field(r, "needs_confirmation", FALSE)]_vars

\* C24: a new_intent turn proposing send_email with email_addresses missing
\* while the intent is schedule_meeting keeps the meeting: intent and entities
\* are unchanged after the turn, awaiting_email_addresses is set and the
\* meeting has not been written to the outbox.
C24_SwitchWaitsForAddresses ==
    [][\A r \in ClientResponses :
          (StepOf(r) /\ SwitchRequested(state, r)) =>
              /\ state'.intent = "schedule_meeting"
              /\ state'.entities = state.entities
              /\ state'.awaiting_email_addresses
              /\ outbox' = outbox]_vars

\* C25: while awaiting_email_addresses is set, a new_intent turn for send_email
\* that carries a recipient ends with intent send_email, that recipient
\* stored, the flag cleared and awaiting_confirmation equal to the
\* classifier's needs_confirmation (true when absent); one that carries no
\* recipient leaves the state as it was, apart from the history entry.
C25_AddressesCompleteTheSwitch ==
    [][\A r \in SwitchResponses :
          (StepOf(r) /\ AddressesAnswered(state, r)) =>
              IF Truthy(Field(r, "entities", NoEntities)["recipient"])
              THEN /\ state'.intent = "send_email"
                   /\ state'.entities["recipient"] = r.entities["recipient"]
                   /\ ~state'.awaiting_email_addresses
                   /\ state'.awaiting_confirmation = Field(r, "needs_confirmation", TRUE)
              ELSE /\ [state' EXCEPT !.history = state.history] = state
                   /\ outbox' = outbox]_vars

\* the step is a process_message call classified as chitchat
ChitchatTurn == IsTurn /\ last'.action_type = "chitchat"

\* C26 as stated: a chitchat turn with no session active sets intent to
\* chitchat and leaves session_active false; with a session active it leaves
\* intent, entities and flags as they were and writes nothing to the outbox.
C26_ChitchatLeavesSessionAlone ==
    [][ChitchatTurn =>
          IF ~state.session_active
          THEN state'.intent = "chitchat" /\ ~state'.session_active
          ELSE Core(state') = Core(state) /\ outbox' = outbox]_vars

\* C26 amended: the same, except that in an active session whose action a
\* failed save left ready the turn calls the save again; when that succeeds the
\* action is written to the outbox and the session is reset.
C26_ChitchatRetriesPendingSave ==
    [][ChitchatTurn =>
          IF ~state.session_active
          THEN /\ Core(state') = Core([state EXCEPT !.intent = "chitchat"])
               /\ ~state'.session_active
               /\ outbox' = outbox
          ELSE IF last'.execution = "saved"
          THEN /\ IsReadyForExecution(state)
               /\ outbox' = Append(outbox, GetActionForExecution(state))
               /\ [Core(state') EXCEPT !.last_saved_action = NoSavedAction]
                     = Core(ZeroState)
          ELSE /\ Core(state') = Core(state)
               /\ outbox' = outbox
               /\ (last'.execution = "failed") <=> IsReadyForExecution(state)]_vars

\* a chitchat turn has just left an open, unconfirmed meeting as it was
C26_Witness ==
    /\ last.action_type = "chitchat"
    /\ turns = 2
    /\ state.session_active
    /\ state.intent = "schedule_meeting"
    /\ state.entities = MeetingFull
    /\ state.awaiting_confirmation
    /\ outbox = <<>>

\* the action kinds _update_state_from_llm_response has a branch for
RecognizedKinds ==
    {"new_intent", "correction", "confirmation", "cancellation",
     "email_address_request", "chitchat"}

\* C27: a turn whose action kind is not a recognized one ends in the state a
\* chitchat turn from the same state ends in; with no session active the
\* intent is chitchat afterwards.
C27_UnrecognizedKindActsAsChitchat ==
    [][(IsTurn /\ last'.action_type \notin RecognizedKinds) =>
          /\ Core(state') = Core(UpdateChitchat(state, NULL))
          /\ ~state.session_active => state'.intent = "chitchat"]_vars

\* C28: whenever the intent is send_email and the state machine counts the
\* action complete (_has_required_entities) or ready (is_ready_for_execution),
\* the recipient is non-empty and email-shaped and the subject or the body is
\* non-empty.
C28_CompleteEmailHasAddress ==
    (/\ state.intent = "send_email"
     /\ HasRequiredEntities(state) \/ IsReadyForExecution(state)) =>
        /\ Present(state.entities, "recipient")
        /\ validate_email_addresses(state.entities["recipient"])
        /\ Present(state.entities, "subject") \/ Present(state.entities, "body")

\* C29: in every reachable state, awaiting_confirmation is true only when
\* every required entity of the current intent is present.
C29_AwaitsConfirmationOnlyWhenComplete ==
    state.awaiting_confirmation => HasRequiredEntities(state)

\* C30: in every reachable state, session_active is true when the intent is
\* schedule_meeting or send_email and false when it is none or chitchat.
C30_SessionActiveIffIntentOpen ==
    state.session_active <=> state.intent \in {"schedule_meeting", "send_email"}

-----------------------------------------------------------------------------
(* The completeness helpers called directly on a state a test installed *)

\* the values an entity can hold: no key, null, empty, blank, a text
ValuesOf(k) ==
    {ABSENT, NULL, "", " "} \cup
    (CASE k = "title" -> {"standup"}
       [] k = "date" -> {"2026-01-05"}
       [] k = "time" -> {"3pm"}
       [] k = "recipient" -> {"sara", "a@x.com"}
       [] k = "subject" -> {"hello"}
       [] k = "body" -> {"text"}
       [] OTHER -> {})

\* the entities of a meeting: title, date and time take every value
MeetingEntities ==
    {Ent([title |-> a, date |-> b, time |-> c]) :
        a \in ValuesOf("title"), b \in ValuesOf("date"), c \in ValuesOf("time")}

\* the entities of an email: recipient, subject and body take every value
EmailEntities ==
    {Ent([recipient |-> a, subject |-> b, body |-> c]) :
        a \in ValuesOf("recipient"), b \in ValuesOf("subject"), c \in ValuesOf("body")}

MeetingKeys == {"title", "date", "time"}

\* the states _update_state installs: any intent with entities of the
\* meeting or of the email, and any setting of the two flags the helpers read
InstalledStates ==
    {[ZeroState EXCEPT !.intent = i, !.entities = e,
                       !.session_active = sa, !.awaiting_confirmation = ac] :
        i \in {NULL, "chitchat", "schedule_meeting", "send_email"},
        e \in MeetingEntities \cup EmailEntities,
        sa \in BOOLEAN, ac \in BOOLEAN}

InitEntities ==
    /\ state \in InstalledStates
    /\ outbox = <<>>
    /\ turns = 0
    /\ last = NoTurn
    /\ confirmed = FALSE
    /\ snap = NoSnapshot
    /\ conversation_managers = [id \in SessionIds |-> NoManager]
    /\ session_id = NULL
    /\ inflight = [t \in Threads |-> NotCalling]
    /\ probe = NoProbe

\* a direct call of a helper: the state is read, the result returned
Called(fn, result) ==
    /\ probe' = [fn |-> fn, result |-> result]
    /\ UNCHANGED <<state, outbox, turns, last, confirmed, snap,
                   conversation_managers, session_id, inflight>>

HasRequiredEntitiesCall == Called("_has_required_entities", HasRequiredEntities(state))

GetMissingEntitiesCall == Called("_get_missing_entities", GetMissingEntities(state))

IsReadyForExecutionCall == Called("is_ready_for_execution", IsReadyForExecution(state))

NextEntities ==
    \/ HasRequiredEntitiesCall
    \/ GetMissingEntitiesCall
    \/ IsReadyForExecutionCall

SpecEntities == InitEntities /\ [][NextEntities]_vars

\* a field that is absent, null, empty or whitespace-only
Lacking(e, field) == e[field] \in {ABSENT, NULL, "", " "}

\* C31: the list _get_missing_entities returns is empty exactly when
\* _has_required_entities passes; for schedule_meeting it is the set of those
\* of title, date and time that are absent or whitespace-only; for an intent
\* other than schedule_meeting and send_email the check passes and the list is
\* empty.
C31_MissingMirrorsCompleteness ==
    /\ probe.fn = "_get_missing_entities" =>
          /\ (probe.result = {}) <=> HasRequiredEntities(state)
          /\ state.intent = "schedule_meeting" =>
                probe.result = {f \in MeetingKeys : Lacking(state.entities, f)}
          /\ state.intent \notin {"schedule_meeting", "send_email"} =>
                probe.result = {}
    /\ probe.fn = "_has_required_entities" =>
          /\ probe.result <=> (GetMissingEntities(state) = {})
          /\ state.intent \notin {"schedule_meeting", "send_email"} => probe.result

\* the missing list of a meeting whose title is blank and whose time is absent
C31_Witness ==
    /\ probe.fn = "_get_missing_entities"
    /\ state.intent = "schedule_meeting"
    /\ state.entities["title"] = " "
    /\ state.entities["date"] = "2026-01-05"
    /\ state.entities["time"] = ABSENT
    /\ probe.result = {"title", "time"}

-----------------------------------------------------------------------------
(* One process_message call followed statement by statement (lines 40-75) *)

\* where the call is: the name of the statement that has just finished
Frame == inflight["t1"]

\* the call moves on to pc with these fields of its frame set
Moves(pc, changes) ==
    inflight' = [inflight EXCEPT !["t1"] =
                    [k \in DOMAIN changes \cup DOMAIN Frame |->
                        IF k = "pc" THEN pc
                        ELSE IF k \in DOMAIN changes THEN changes[k] ELSE Frame[k]]]

\* the classifier responses of the calls followed: a complete meeting and a
\* complete email, a confirmation, small talk, and null entities followed by
\* a correction, on which the transition raises
StepResponses ==
    {LLMClientProcessMessage(raw) :
        raw \in {Json("new_intent", "schedule_meeting", MeetingFull, FALSE, FALSE, FALSE, {}),
                 Json("new_intent", "send_email", EmailFull, TRUE, FALSE, FALSE, {}),
                 JsonShort("confirmation", FALSE, TRUE),
                 Json("chitchat", "chitchat", NoEntities, FALSE, FALSE, FALSE, {}),
                 Json("new_intent", "chitchat", NullEntities, FALSE, FALSE, FALSE, {}),
                 Json("correction", "chitchat", NoEntities, FALSE, FALSE, TRUE, {})}}

\* line 42: context = self._build_context_for_llm()
BuildContext ==
    /\ Frame.pc = "idle"
    /\ turns < MaxStepTurns
    /\ Moves("context_built",
             [user_input |-> "yes", context |-> HandedContext(state).value,
              entry |-> state, sent |-> outbox])
    /\ UNCHANGED <<state, outbox, turns, last, confirmed, snap,
                   conversation_managers, session_id, probe>>

\* line 45: llm_response = self.llm_client.process_message(user_input, context)
Classify ==
    /\ Frame.pc = "context_built"
    /\ \E llm_response \in StepResponses :
          Moves("classified", [llm_response |-> llm_response])
    /\ UNCHANGED <<state, outbox, turns, last, confirmed, snap,
                   conversation_managers, session_id, probe>>

\* line 48: self._update_state_from_llm_response(llm_response, user_input),
\* and the readiness test of line 84, which raises on entities that are None
UpdateState ==
    /\ Frame.pc = "classified"
    /\ IF UpdateRaises(state, Frame.llm_response)
       THEN /\ Moves("raised", [io_ok |-> TRUE])
            /\ UNCHANGED state
       ELSE LET updated == UpdateStateFromLLMResponse(state, Frame.llm_response)
            IN  /\ state' = updated
                /\ IF ReadyRaises(updated) THEN Moves("raised", [io_ok |-> TRUE])
                   ELSE Moves("updated", [io_ok |-> TRUE])
    /\ UNCHANGED <<outbox, turns, last, confirmed, snap,
                   conversation_managers, session_id, probe>>

\* lines 84-95: nothing to save, or save_action_to_outbox writes the file or
\* fails
SaveAction ==
    /\ Frame.pc = "updated"
    /\ IF ~IsReadyForExecution(state)
       THEN /\ Moves("executed", [execution |-> "none"])
            /\ UNCHANGED outbox
       ELSE \E io_ok \in BOOLEAN :
              LET action_data == GetActionForExecution(state)
                  save_result == SaveActionToOutbox(action_data, io_ok)
              IN  IF save_result.success
                  THEN /\ outbox' = Append(outbox, action_data)
                       /\ Moves("saved", [io_ok |-> io_ok, action_data |-> action_data,
                                          save_result |-> save_result])
                  ELSE /\ Moves("executed", [io_ok |-> io_ok, execution |-> "failed"])
                       /\ UNCHANGED outbox
    /\ UNCHANGED <<state, turns, last, confirmed, snap,
                   conversation_managers, session_id, probe>>

\* lines 97-108: last_saved_action is set and the session reset
ResetAfterSave ==
    /\ Frame.pc = "saved"
    /\ state' = ResetSessionAfterExecution(
                    [state EXCEPT !.last_saved_action =
                        [filename |-> Frame.save_result.filename,
                         action_type |-> Frame.action_data.type,
                         summary |-> GetActionSummary(Frame.action_data)]])
    /\ Moves("executed", [execution |-> "saved"])
    /\ UNCHANGED <<outbox, turns, last, confirmed, snap,
                   conversation_managers, session_id, probe>>

\* what `last` keeps of a call followed statement by statement
Stepped(response, execution) ==
    [NoTurn EXCEPT !.origin = response.origin,
                   !.user_input = Frame.user_input,
                   !.reply = response.response,
                   !.action_type = response.action_type,
                   !.execution = execution]

\* lines 58-60: the history entry is appended and llm_response returned
AppendAndReturn ==
    /\ Frame.pc = "executed"
    /\ state' = AddToHistory(state, Frame.user_input, Frame.llm_response.response)
    /\ last' = Stepped(Frame.llm_response, Frame.execution)
    /\ turns' = turns + 1
    /\ Moves("idle", [pc |-> "idle"])
    /\ UNCHANGED <<outbox, confirmed, snap, conversation_managers, session_id, probe>>

\* lines 62-75: the exception handler appends its own entry and returns
\* error_response
HandleException ==
    /\ Frame.pc = "raised"
    /\ state' = AddToHistory(state, Frame.user_input, ManagerErrorResponse.response)
    /\ last' = Stepped(ManagerErrorResponse, "none")
    /\ turns' = turns + 1
    /\ Moves("idle", [pc |-> "idle"])
    /\ UNCHANGED <<outbox, confirmed, snap, conversation_managers, session_id, probe>>

NextSteps ==
    \/ BuildContext
    \/ Classify
    \/ UpdateState
    \/ SaveAction
    \/ ResetAfterSave
    \/ AppendAndReturn
    \/ HandleException

SpecSteps == Init /\ [][NextSteps]_vars

\* the call returns on this step
Returns == Frame.pc \in {"executed", "raised"} /\ inflight'["t1"].pc = "idle"

\* C32: within one process_message call the context is the one built from the
\* state the transition is then applied to; the outbox is written only after
\* the transition and before any reset; the session is reset only after a
\* successful save; the history grows only on the last step, on which the
\* call returns; and the state and the outbox the call leaves are those of
\* the turn taken as a whole.
C32_StepsOfATurnInOrder ==
    [][/\ Frame.pc = "classified" =>
            /\ Frame.context = HandedContext(state).value
            /\ state = Frame.entry
       /\ outbox' # outbox =>
            /\ Frame.pc = "updated"
            /\ inflight'["t1"].pc = "saved"
            /\ state' = state
       /\ (state' # state /\ Frame.pc \notin {"classified", "executed", "raised"}) =>
            /\ Frame.pc = "saved"
            /\ outbox = Append(Frame.sent, Frame.action_data)
            /\ state'.intent = NULL
            /\ state'.entities = NoEntities
            /\ state'.history = state.history
       /\ state'.history # state.history => Returns
       /\ Returns =>
            LET t == TurnResult(Frame.entry, confirmed, Frame.user_input,
                                Frame.llm_response, Frame.io_ok)
            IN  /\ state' = t.state
                /\ outbox' = Frame.sent \o t.files
                /\ last'.reply = t.response.response
                /\ last'.execution = t.execution]_vars

\* a call has returned after saving: the entry of the turn is in the history
\* of the reset session, with the entities as the reset left them
C32_Witness ==
    /\ Frame.pc = "idle"
    /\ last.execution = "saved"
    /\ outbox # <<>>
    /\ state.intent = NULL
    /\ Len(state.history) = 2
    /\ state.history[2].state_snapshot = NoEntities

-----------------------------------------------------------------------------
(* _parse_response called on what the classifier returned *)

\* JSON objects the classifier can return: any subset of the fields, each
\* with a value other than its default
ParsedObjects ==
    {[Json(at, "schedule_meeting", e, nc, rte, TRUE, {"email_addresses"}) EXCEPT
         !.present = fields, !.response = reply] :
        at \in {"new_intent", "confirmation"}, e \in {MeetingFull, NullEntities},
        nc \in BOOLEAN, rte \in BOOLEAN, reply \in {"llm_reply", NULL},
        fields \in SUBSET AllFields}

\* raw_response as _call_groq returned it
InitParse ==
    /\ probe \in {[fn |-> "_call_groq", result |-> raw] :
                    raw \in ParsedObjects \cup {Unparsable}}
    /\ state = ZeroState
    /\ outbox = <<>>
    /\ turns = 0
    /\ last = NoTurn
    /\ confirmed = FALSE
    /\ snap = NoSnapshot
    /\ conversation_managers = [id \in SessionIds |-> NoManager]
    /\ session_id = NULL
    /\ inflight = [t \in Threads |-> NotCalling]

\* parsed_response = self._parse_response(raw_response)
ParseResponseCall ==
    /\ probe.fn = "_call_groq"
    /\ probe' = [fn |-> "_parse_response", raw |-> probe.result,
                 result |-> ParseResponse(probe.result)]
    /\ UNCHANGED <<state, outbox, turns, last, confirmed, snap,
                   conversation_managers, session_id, inflight>>

NextParse == ParseResponseCall

SpecParse == InitParse /\ [][NextParse]_vars

\* the defaults the claim names
ClaimedDefault(field) ==
    CASE field \in {"action_type", "intent"} -> "chitchat"
      [] field = "response" -> "default_reply"
      [] OTHER -> FALSE

-----------------------------------------------------------------------------
(* save_action_to_outbox called directly, the outbox directory and the clock *)

\* re.sub(r'[^\w\-_\.]', '_', text)[:20]
SafeName(text) ==
    CASE text = "stand up" -> "stand_up"
      [] text = "Message from Assistant" -> "Message_from_Assista"
      [] OTHER -> text

\* datetime.now().strftime('%Y%m%d_%H%M%S') at the second `now`, and the
\* name built from it: f"meeting_{safe_title}_{timestamp}.json"
FileNameAt(action, now) ==
    [prefix |-> FileName(action).prefix,
     name |-> SafeName(FileName(action).name),
     timestamp |-> now]

\* the actions the calls are made with
SavedActions ==
    {[type |-> "schedule_meeting", entities |-> [MeetingFull EXCEPT !["title"] = title]] :
        title \in {"standup", "stand up", "stand_up"}}
    \cup {[type |-> "send_email", entities |-> e] :
            e \in {EmailFull, [EmailFull EXCEPT !["subject"] = ABSENT], EmailToName}}

\* an empty outbox directory, the clock at its first second
InitFiles ==
    /\ probe = [fn |-> "none", now |-> 0, dir |-> {}, saved |-> <<>>]
    /\ state = ZeroState
    /\ outbox = <<>>
    /\ turns = 0
    /\ last = NoTurn
    /\ confirmed = FALSE
    /\ snap = NoSnapshot
    /\ conversation_managers = [id \in SessionIds |-> NoManager]
    /\ session_id = NULL
    /\ inflight = [t \in Threads |-> NotCalling]

\* a second passes
Tick ==
    /\ probe.now < MaxSeconds
    /\ probe' = [probe EXCEPT !.fn = "clock", !.now = @ + 1]
    /\ UNCHANGED <<state, outbox, turns, last, confirmed, snap,
                   conversation_managers, session_id, inflight>>

\* open(filepath, 'w') and json.dump: the file of that name is created, or
\* truncated and rewritten when it exists
WriteFile(dir, filename, data) ==
    {f \in dir : f.filename # filename} \cup {[filename |-> filename, data |-> data]}

\* save_action_to_outbox(action_data, outbox_dir)
SaveCall(action) ==
    /\ Len(probe.saved) < MaxSaves
    /\ LET save_result == SaveActionToOutbox(action, TRUE)
           filename == FileNameAt(action, probe.now)
       IN  IF save_result.success
           THEN probe' = [probe EXCEPT !.fn = "save_action_to_outbox",
                                       !.dir = WriteFile(@, filename, action),
                                       !.saved = Append(@, filename)]
           ELSE probe' = [probe EXCEPT !.fn = "save_rejected"]
    /\ UNCHANGED <<state, outbox, turns, last, confirmed, snap,
                   conversation_managers, session_id, inflight>>

Save == \E action \in SavedActions : SaveCall(action)

NextFiles ==
    \/ Tick
    \/ Save

SpecFiles == InitFiles /\ [][NextFiles]_vars

\* C34: the file names returned by successful saves are pairwise different,
\* and every successful save has added a file to the outbox directory: no
\* save has overwritten the file of an earlier one.
C34_SavesNeverCollide ==
    /\ \A i, j \in 1..Len(probe.saved) :
          i # j => probe.saved[i] # probe.saved[j]
    /\ Cardinality(probe.dir) = Len(probe.saved)

\* the step is a process_message call classified as email_address_request
AddressRequestTurn == IsTurn /\ last'.action_type = "email_address_request"

\* C35: an email_address_request turn ends with awaiting_email_addresses set
\* and awaiting_confirmation cleared, and with the intent and the entities it
\* started with.
C35_AddressRequestSetsFlagOnly ==
    [][AddressRequestTurn =>
          /\ state'.awaiting_email_addresses
          /\ ~state'.awaiting_confirmation
          /\ state'.intent = state.intent
          /\ state'.entities = state.entities]_vars

\* C36 as stated: when process_message returns, is_ready_for_execution() is
\* true only if the save attempted in that call failed; a call that starts in
\* a ready state attempts the save whatever the classifier answered.
C36_ReadyAlwaysReattempted ==
    /\ [](IsReadyForExecution(state) => last.execution = "failed")
    /\ [][(IsTurn /\ IsReadyForExecution(state) /\ last'.origin # "manager_error") =>
              last'.execution \in {"saved", "failed"}]_vars

\* the action kinds whose transition leaves a ready state as it is
KindsKeepingReady == {"chitchat", "greeting", "error"}

\* C36 amended: when process_message returns, is_ready_for_execution() is
\* true only if the save attempted in that call failed or the call ended in
\* its exception handler; a call attempts the save exactly when the state is
\* ready after its transition, so a state left ready by a failed save is
\* re-attempted on the next turn when that turn's transition leaves it ready
\* (small talk, an unrecognized kind, a classifier failure), and not when the
\* transition resets the session or raises.
C36_ReadyOnlyAfterFailedSave ==
    /\ [](IsReadyForExecution(state) =>
            last.execution = "failed" \/ last.origin = "manager_error")
    /\ [][IsTurn =>
            /\ (last'.execution \in {"saved", "failed"}) <=> last'.ready_at_execution
            /\ last'.origin = "manager_error" =>
                  IsReadyForExecution(state') = IsReadyForExecution(state)
            /\ (/\ IsReadyForExecution(state)
                /\ last'.action_type \in KindsKeepingReady
                /\ last'.origin # "manager_error") =>
                  last'.execution \in {"saved", "failed"}
            /\ (IsReadyForExecution(state) /\ last'.action_type = "cancellation") =>
                  last'.execution = "none"]_vars

\* a small-talk turn has re-attempted the save a first turn failed, and the
\* save has failed again
C36_Witness ==
    /\ turns = 2
    /\ last.action_type = "chitchat"
    /\ last.execution = "failed"
    /\ IsReadyForExecution(state)
    /\ outbox = <<>>

\* C37: a call that returns the error response of process_message's own
\* exception handler leaves intent, entities, flags and last_saved_action as
\* they were before the call, adds one history entry and writes nothing to
\* the outbox.
C37_ManagerErrorChangesOnlyHistory ==
    [][(IsTurn /\ last'.origin = "manager_error") =>
          /\ last'.action_type = "error"
          /\ Core(state') = Core(state)
          /\ Earlier(state'.history) = Retained(state.history)
          /\ outbox' = outbox
          /\ last'.execution = "none"]_vars

\* the handler has answered a call made with an open meeting, which is still
\* there
C37_Witness ==
    /\ last.origin = "manager_error"
    /\ turns = 2
    /\ state.intent = "schedule_meeting"
    /\ state.entities = MeetingFull
    /\ Len(state.history) = 2
    /\ outbox = <<>>

\* C38: awaiting_email_addresses and awaiting_confirmation are never both
\* true, and a turn that takes the ordinary new_intent path ends with
\* awaiting_email_addresses false.
C38_WaitingFlagsExclusive ==
    /\ [](~(state.awaiting_email_addresses /\ state.awaiting_confirmation))
    /\ [][\A r \in ClientResponses :
            (StepOf(r) /\ OrdinaryNewIntent(state, r)) =>
                ~state'.awaiting_email_addresses]_vars

-----------------------------------------------------------------------------
(* save_email_action called directly with a recipient that may be a list *)

\* the texts a recipient, or an entry of a recipient list, can be
RecipientTexts == {"", " ", "sara", "a@x.com", "s@x.com", "sara <a@x.com>"}

\* re.findall(email_pattern, text)
AddressesIn(text) ==
    CASE text \in EmailShapedValues -> <<text>>
      [] text = "sara <a@x.com>" -> <<"a@x.com">>
      [] OTHER -> <<>>

\* text.strip()
Strip(text) == IF text = " " THEN "" ELSE text

\* the values of entities.get('recipient'): None, a string, a list of strings
RecipientValues ==
    {[kind |-> "none"]}
    \cup {[kind |-> "str", text |-> t] : t \in RecipientTexts}
    \cup {[kind |-> "list", items |-> items] :
            items \in UNION {[1..n -> RecipientTexts] : n \in 0..MaxRecipients}}

\* Python truthiness of a recipient value
TruthyRecipient(r) ==
    CASE r.kind = "none" -> FALSE
      [] r.kind = "str" -> r.text # ""
      [] OTHER -> r.items # <<>>

\* validate_email_addresses on such a value; for a list, all() runs over the
\* truthy entries only
ValidateEmailAddressesOf(recipients) ==
    IF ~TruthyRecipient(recipients) THEN FALSE
    ELSE IF recipients.kind = "str" THEN AddressesIn(recipients.text) # <<>>
    ELSE \A i \in 1..Len(recipients.items) :
            recipients.items[i] # "" => AddressesIn(recipients.items[i]) # <<>>

RECURSIVE FormatItems(_)
\* the loop of format_recipients_for_email over a list
FormatItems(items) ==
    IF items = <<>> THEN <<>>
    ELSE LET recipient == Head(items)
             found == AddressesIn(recipient)
             formatted == IF Strip(recipient) = "" THEN <<>>
                          ELSE IF found # <<>> THEN found
                          ELSE <<Strip(recipient)>>
         IN  formatted \o FormatItems(Tail(items))

\* format_recipients_for_email
FormatRecipientsForEmail(recipients) ==
    IF ~TruthyRecipient(recipients) THEN <<>>
    ELSE IF recipients.kind = "str"
    THEN (IF AddressesIn(recipients.text) # <<>>
          THEN AddressesIn(recipients.text) ELSE <<recipients.text>>)
    ELSE FormatItems(recipients.items)

\* save_email_action: validate_email_data, then the recipients written to
\* the file
SaveEmailAction(entities, io_ok) ==
    LET is_valid == /\ TruthyRecipient(entities.recipient)
                    /\ ValidateEmailAddressesOf(entities.recipient)
                    /\ \/ Truthy(entities.subject) /\ Stripped(entities.subject)
                       \/ Truthy(entities.body) /\ Stripped(entities.body)
    IN  IF is_valid /\ io_ok
        THEN [success |-> TRUE,
              recipients |-> FormatRecipientsForEmail(entities.recipient)]
        ELSE [success |-> FALSE, recipients |-> <<>>]

\* the entities the call is made with
InitRecipients ==
    /\ probe \in {[fn |-> "none",
                   entities |-> [recipient |-> r, subject |-> subject, body |-> body]] :
                    r \in RecipientValues, subject \in {ABSENT, "hello"},
                    body \in {ABSENT, " ", "text"}}
    /\ state = ZeroState
    /\ outbox = <<>>
    /\ turns = 0
    /\ last = NoTurn
    /\ confirmed = FALSE
    /\ snap = NoSnapshot
    /\ conversation_managers = [id \in SessionIds |-> NoManager]
    /\ session_id = NULL
    /\ inflight = [t \in Threads |-> NotCalling]

SaveEmailCall ==
    /\ probe.fn = "none"
    /\ \E io_ok \in BOOLEAN :
          probe' = [fn |-> "save_email_action", entities |-> probe.entities,
                    save_result |-> SaveEmailAction(probe.entities, io_ok)]
    /\ UNCHANGED <<state, outbox, turns, last, confirmed, snap,
                   conversation_managers, session_id, inflight>>

NextRecipients == SaveEmailCall

SpecRecipients == InitRecipients /\ [][NextRecipients]_vars

\* every entry of the sequence of texts is an address
AllAddresses(texts) == \A i \in 1..Len(texts) : texts[i] \in EmailShapedValues

\* C39: a successful save of a send_email action has written at least one
\* recipient and only email-shaped recipients; a recipient that is a list
\* holding no address (only empty or non-address strings) makes the save
\* return success false.
C39_SavedRecipientsAreAddresses ==
    probe.fn = "save_email_action" =>
        /\ probe.save_result.success =>
              /\ probe.save_result.recipients # <<>>
              /\ AllAddresses(probe.save_result.recipients)
        /\ (/\ probe.entities.recipient.kind = "list"
            /\ \A i \in 1..Len(probe.entities.recipient.items) :
                  AddressesIn(probe.entities.recipient.items[i]) = <<>>) =>
              ~probe.save_result.success

\* C40: is_ready_for_execution() returns true exactly when session_active is
\* true, the intent is schedule_meeting or send_email, _has_required_entities()
\* is true and awaiting_confirmation is false.
C40_ReadinessAgreesWithCompleteness ==
    /\ probe.fn = "is_ready_for_execution" =>
          (probe.result <=>
              /\ state.session_active
              /\ state.intent \in {"schedule_meeting", "send_email"}
              /\ HasRequiredEntities(state)
              /\ ~state.awaiting_confirmation)
    /\ (/\ probe.fn = "_has_required_entities"
        /\ state.session_active
        /\ state.intent \in {"schedule_meeting", "send_email"}
        /\ ~state.awaiting_confirmation) =>
          (probe.result <=> IsReadyForExecution(state))

\* is_ready_for_execution() has returned true for an active email session
\* with a recipient and a body but no subject
C40_Witness ==
    /\ probe.fn = "is_ready_for_execution"
    /\ probe.result
    /\ state.intent = "send_email"
    /\ state.entities["recipient"] = "a@x.com"
    /\ state.entities["subject"] = " "
    /\ state.entities["body"] = "text"

====
